---- MODULE Spec2Model ----
(***************************************************************************)
(* Model of cmd/jag/commands/watch.go: the watcher (WatchSet), the         *)
(* dependency probe (updateWatcher), the run task (runOnDevice) and the    *)
(* event loop returned by onWatchChanges.                                  *)
(*                                                                         *)
(* Paths are sequences of components, so filepath.Dir is computed.  Time   *)
(* is in milliseconds.  Goroutines interleave at the granularity of one    *)
(* shared-memory access per step.                                          *)
(***************************************************************************)
EXTENDS Integers, Sequences, FiniteSets, TLC

\* ---------------------------------------------------------------- bounds
\* Generations are 0..MaxGen (generation 0 is the startup one).
MaxGen == 2
\* The clock stops advancing at MaxTime (ms).
MaxTime == 100

\* ------------------------------------------------------------- constants
\* ticketDuration := 100 * time.Millisecond
ticketDuration == 100

\* The clock advances half a debounce window at a time.
TimeStep == ticketDuration \div 2

Gens == 0..MaxGen
None == -1

\* ------------------------------------------------------------ file system
entrypoint == <<"app", "main.toit">>
libA == <<"lib", "a.toit">>
\* app/dep.toit is a symbolic link to lib/a.toit
depLink == <<"app", "dep.toit">>
\* lib/gen.toit exists when the analyzer runs but may be gone later
genFile == <<"lib", "gen.toit">>
\* lib/old.toit is named by stale reports but does not exist
oldFile == <<"lib", "old.toit">>
\* app/notes.txt exists but is never a dependency
notes == <<"app", "notes.txt">>

\* os.Stat(p) succeeds (at the time the report is parsed)
Exists(p) == p \in {entrypoint, libA, depLink, genFile, notes, <<"app">>, <<"lib">>, <<".">>}

\* filepath.Dir on a clean relative path
Dir(p) == IF Len(p) > 1 THEN SubSeq(p, 1, Len(p) - 1) ELSE <<".">>

\* filepath.EvalSymlinks: the path with links resolved; ok is FALSE when the
\* path cannot be resolved (gone tells whether lib/gen.toit has vanished).
EvalSymlinks(p, gone) ==
    IF ~Exists(p) \/ (gone /\ p = genFile) THEN [ok |-> FALSE, path |-> p]
    ELSE IF p = depLink THEN [ok |-> TRUE, path |-> libA]
    ELSE [ok |-> TRUE, path |-> p]

\* ------------------------------------------------------ analyzer reports
\* A report line: a path, optionally suffixed with ":".
Line(p, c) == [name |-> p, colon |-> c]

\* The dependency reports the analyzer may write.
Reports ==
    { {Line(oldFile, TRUE)},
      {Line(entrypoint, FALSE), Line(libA, TRUE), Line(libA, FALSE)},
      {Line(libA, TRUE), Line(depLink, FALSE), Line(oldFile, FALSE)},
      {Line(entrypoint, TRUE), Line(genFile, FALSE)} }

\* strings.TrimSuffix(strings.TrimSpace(text), ":")
TrimLine(l) == l.name

\* parseDependeniesToDirs: the deduplicated existing paths of the report
parseDependeniesToDirs(b) == {TrimLine(l) : l \in {x \in b : Exists(TrimLine(x))}}

\* ----------------------------------------------------------------- state
VARIABLES
    wpaths,      \* watcher.paths
    wdirs,       \* watcher.dirs
    osWatched,   \* directories registered with the fsnotify watcher
    mutex,       \* watcher.Mutex: the generation whose probe holds it, or None
    wTodo,       \* Watch: resolved paths the first loop has not visited yet
    wCand,       \* Watch: candidates (the resolved paths of this call)
    wAdds,       \* Watch: directories handed to watcher.Add by this call
    wBefore,     \* Watch: w.paths as the call found it (history)
    lastCall,    \* the most recent Watch call that returned nil (history)
    probePc,     \* updateWatcher(g): position of each generation's probe; it
                 \* ends "kept" (the return in the else branch), "failed"
                 \* (Watch returned an error) or "done" (Watch returned nil)
    probeArg,    \* updateWatcher(g): its local `paths`, while it runs
    runSt,       \* runOnDevice(g): "none", "running", "done"
    loopPc,      \* position of the goroutine that runs onWatchChanges
    gen,         \* the current generation (number of accepted edits)
    cancelReq,   \* generations whose cancel function has been called
    fired,       \* the loop's `fired` flag
    event,       \* the event the loop has received and not yet handled
    ctxDone,     \* cmd.Context() has been cancelled
    chClosed,    \* the fsnotify channels have been closed
    errPending,  \* the watch primitive is sending on watcher.Errors()
    now,         \* the clock (ms)
    nextTick,    \* when the ticker fires next (None before it is created)
    tickPending, \* a tick is buffered in ticker.C
    lastAccept   \* when the latest edit was accepted, or None (history)

wsVars == <<wpaths, wdirs, osWatched, mutex, wTodo, wCand, wAdds, wBefore, lastCall>>
taskVars == <<probePc, probeArg, runSt>>
loopVars == <<loopPc, gen, cancelReq, fired, event, lastAccept>>
envVars == <<ctxDone, chClosed, errPending>>
timeVars == <<now, nextTick, tickPending>>
vars == <<wsVars, taskVars, loopVars, envVars, timeVars>>

NoCall == [ok |-> FALSE, by |-> None, arg |-> {}, before |-> {}, paths |-> {},
           dirs |-> {}, os |-> {}, adds |-> {}]
NoEvent == [name |-> <<>>, op |-> {}]
NoArg == {<<>>}

\* A generation's scope is cancelled when its cancel function was called or
\* when the parent context is cancelled (context.WithCancel(ctx)).
Cancelled(g) == g \in cancelReq \/ ctxDone

\* newWatcher (dirs is left nil) and the start of onWatchChanges:
\* firstCtx is created, `go updateWatcher(firstCtx)`, then
\* runOnDevice(firstCtx) is called on the caller's goroutine.
Init ==
    /\ wpaths = {}
    /\ wdirs = {}
    /\ osWatched = {}
    /\ mutex = None
    /\ wTodo = {}
    /\ wCand = {}
    /\ wAdds = {}
    /\ wBefore = {}
    /\ lastCall = NoCall
    /\ probePc = [g \in Gens |-> IF g = 0 THEN "analyze" ELSE "idle"]
    /\ probeArg = [g \in Gens |-> NoArg]
    /\ runSt = [g \in Gens |-> IF g = 0 THEN "running" ELSE "none"]
    /\ loopPc = "run0"
    /\ gen = 0
    /\ cancelReq = {}
    /\ fired = FALSE
    /\ event = NoEvent
    /\ ctxDone = FALSE
    /\ chClosed = FALSE
    /\ errPending = FALSE
    /\ now = 0
    /\ nextTick = None
    /\ tickPending = FALSE
    /\ lastAccept = None

\* The process is alive: the runtime has not aborted it.
Alive == loopPc # "crashed"

\* ------------------------------------------------------- watcher.Watch
\* The call's view of the resolved inputs: paths[i] after the first loop.
Resolved(arg, gone) == {EvalSymlinks(p, gone).path : p \in arg}
ResolveFails(arg, gone) == \E p \in arg : ~EvalSymlinks(p, gone).ok

\* candidateDirs once the loop over paths is over
CandidateDirs(cand) == {Dir(p) : p \in cand}

\* `if _, ok := w.dirs[dir]; !ok { w.watcher.Add(dir) }`: the directories
\* the loop body registers for path p.
DirsToAdd(p, dirs) == IF Dir(p) \in dirs THEN {} ELSE {Dir(p)}

\* Mutant of PrunedPaths: the new paths are merged into the old ones.
PrunedPaths_Merge(ps, cand) == ps

\* `for p := range w.paths { if !candidates[p] { delete(w.paths, p) } }`
PrunedPaths(ps, cand) == {p \in ps : p \in cand}

\* `for d := range w.dirs { if !candidateDirs[d] { delete; Remove(d) } }`
DirsToRemove(dirs, cand) == {d \in dirs : d \notin CandidateDirs(cand)}

\* The record of a call that returned nil: the generation whose probe made
\* it, its argument, w.paths before it, w.paths, w.dirs and the registered
\* directories after it, and the directories it handed to watcher.Add.
CallRecord(g, arg, before, ps, ds, os, adds) ==
    [ok |-> TRUE, by |-> g, arg |-> arg, before |-> before, paths |-> ps,
     dirs |-> ds, os |-> os, adds |-> adds]

\* Mutant of WatchLock: each path is tracked as soon as it is resolved, so
\* a call that fails on a later path has already tracked the earlier ones.
WatchLock_TrackWhileResolving(g) ==
    /\ Alive
    /\ probePc[g] = "watch"
    /\ mutex = None
    /\ \E gone \in (IF genFile \in probeArg[g] THEN BOOLEAN ELSE {FALSE}) :
         IF ResolveFails(probeArg[g], gone)
         THEN /\ probePc' = [probePc EXCEPT ![g] = "failed"]
              /\ probeArg' = [probeArg EXCEPT ![g] = NoArg]
              /\ wpaths' = wpaths \cup {EvalSymlinks(p, gone).path :
                                          p \in {q \in probeArg[g] : EvalSymlinks(q, gone).ok}}
              /\ UNCHANGED <<wdirs, osWatched, mutex, wTodo, wCand, wAdds, wBefore, lastCall>>
         ELSE /\ mutex' = g
              /\ wTodo' = Resolved(probeArg[g], gone)
              /\ wCand' = Resolved(probeArg[g], gone)
              /\ wAdds' = {}
              /\ wBefore' = wpaths
              /\ probePc' = [probePc EXCEPT ![g] = "adding"]
              /\ UNCHANGED <<probeArg, wpaths, wdirs, osWatched, lastCall>>
    /\ UNCHANGED <<runSt, loopVars, envVars, timeVars>>

\* Lock, then the EvalSymlinks loop.  On a resolution error the call returns
\* (the deferred Unlock runs) and updateWatcher prints the error.
WatchLock(g) ==
    /\ Alive
    /\ probePc[g] = "watch"
    /\ mutex = None
    /\ \E gone \in (IF genFile \in probeArg[g] THEN BOOLEAN ELSE {FALSE}) :
         IF ResolveFails(probeArg[g], gone)
         THEN /\ probePc' = [probePc EXCEPT ![g] = "failed"]
              /\ probeArg' = [probeArg EXCEPT ![g] = NoArg]
              /\ UNCHANGED <<wpaths, wdirs, osWatched, mutex, wTodo, wCand, wAdds,
                             wBefore, lastCall>>
         ELSE /\ mutex' = g
              /\ wTodo' = Resolved(probeArg[g], gone)
              /\ wCand' = Resolved(probeArg[g], gone)
              /\ wAdds' = {}
              /\ wBefore' = wpaths
              /\ probePc' = [probePc EXCEPT ![g] = "adding"]
              /\ UNCHANGED <<probeArg, wpaths, wdirs, osWatched, lastCall>>
    /\ UNCHANGED <<runSt, loopVars, envVars, timeVars>>

\* One iteration of `for _, p := range paths` (the slice's order comes from
\* a map iteration, so any order is possible).
WatchAdd(g) ==
    /\ Alive
    /\ mutex = g
    /\ probePc[g] = "adding"
    /\ \E p \in wTodo :
         /\ wpaths' = wpaths \cup {p}
         /\ osWatched' = osWatched \cup DirsToAdd(p, wdirs)
         /\ wAdds' = wAdds \cup DirsToAdd(p, wdirs)
         /\ wTodo' = wTodo \ {p}
    /\ UNCHANGED <<wdirs, mutex, wCand, wBefore, lastCall>>
    /\ UNCHANGED <<taskVars, loopVars, envVars, timeVars>>

\* The two removal loops, `return nil` and the deferred Unlock.
WatchPrune(g) ==
    /\ Alive
    /\ mutex = g
    /\ probePc[g] = "adding"
    /\ wTodo = {}
    /\ wpaths' = PrunedPaths(wpaths, wCand)
    /\ wdirs' = wdirs \ DirsToRemove(wdirs, wCand)
    /\ osWatched' = osWatched \ DirsToRemove(wdirs, wCand)
    /\ mutex' = None
    /\ lastCall' = CallRecord(g, probeArg[g], wBefore, wpaths', wdirs', osWatched', wAdds)
    /\ probePc' = [probePc EXCEPT ![g] = "done"]
    /\ probeArg' = [probeArg EXCEPT ![g] = NoArg]
    /\ wCand' = {}
    /\ wAdds' = {}
    /\ wBefore' = {}
    /\ UNCHANGED wTodo
    /\ UNCHANGED <<runSt, loopVars, envVars, timeVars>>

\* A Watch call has made its first mutation and not yet its last.
MidWatch == mutex # None /\ wTodo # wCand

\* ------------------------------------------------------- updateWatcher
\* `if len(paths) == 0 { paths = []string{filepath.Dir(entrypoint)} }`
ProbePaths(parsed) == IF parsed = {} THEN {Dir(entrypoint)} ELSE parsed

\* Mutant of KeepOnFailure: a single tracked path does not count.
KeepOnFailure_OffByOne(count) == count > 1

\* `if watcher.CountPaths() > 0 { return }`
KeepOnFailure(count) == count > 0

\* watcher.CountPaths: len(w.paths), read without the mutex
CountPaths == Cardinality(wpaths)

\* cmd.Run() returns nil: the report is read and parsed.  (A report that
\* cannot be read leaves paths empty, like the empty report.)  The scope
\* runCtx is not an input of this step: ToitAnalyze is given ctx.
ProbeAnalyzeOk(g) ==
    /\ Alive
    /\ probePc[g] = "analyze"
    /\ \E b \in Reports :
         probeArg' = [probeArg EXCEPT ![g] = ProbePaths(parseDependeniesToDirs(b))]
    /\ probePc' = [probePc EXCEPT ![g] = "watch"]
    /\ UNCHANGED <<runSt, wsVars, loopVars, envVars, timeVars>>

\* cmd.Run() returns an error (a compilation error, or the command killed).
ProbeAnalyzeFail(g) ==
    /\ Alive
    /\ probePc[g] = "analyze"
    /\ probePc' = [probePc EXCEPT ![g] = "count"]
    /\ UNCHANGED <<probeArg, runSt, wsVars, loopVars, envVars, timeVars>>

\* The else branch: keep the watch paths if there are some, else fall back.
ProbeCount(g) ==
    /\ Alive
    /\ probePc[g] = "count"
    /\ IF KeepOnFailure(CountPaths)
       THEN /\ probePc' = [probePc EXCEPT ![g] = "kept"]
            /\ UNCHANGED probeArg
       ELSE /\ probePc' = [probePc EXCEPT ![g] = "watch"]
            /\ probeArg' = [probeArg EXCEPT ![g] = ProbePaths({})]
    /\ UNCHANGED <<runSt, wsVars, loopVars, envVars, timeVars>>

\* --------------------------------------------------------- runOnDevice
\* RunFile returns (with or without an error, which is printed).  runCtx is
\* not an input: RunFile is given cmd.  The first run is called on the
\* goroutine of the caller, which only then gets the loop and starts it
\* (`go fn()`): the ticker is created as the loop starts.
RunFinish(g) ==
    /\ Alive
    /\ runSt[g] = "running"
    /\ runSt' = [runSt EXCEPT ![g] = "done"]
    /\ IF g = 0
       THEN /\ loopPc' = "select"
            /\ nextTick' = now + ticketDuration
       ELSE UNCHANGED <<loopPc, nextTick>>
    /\ UNCHANGED <<probePc, probeArg, wsVars, gen, cancelReq, fired, event, lastAccept,
                   envVars, now, tickPending>>

\* ------------------------------------------------------- the event loop
\* Events the platform can report: the names of entries of registered
\* directories.
EventPaths == {entrypoint, libA, notes}
EventOps == {{"Write"}, {"Remove"}, {"Write", "Chmod"}}

\* Mutant of IsWrite: the kind of the event is not tested.
IsWrite_AnyKind(op) == op # {}

\* event.Op&fsnotify.Write == fsnotify.Write
IsWrite(op) == "Write" \in op

\* Mutant of IsRelevant: the lookup is skipped, every event counts.
IsRelevant_Any(name) == TRUE

\* `_, ok = watcher.paths[event.Name]`, read without the mutex
IsRelevant(name) == name \in wpaths

\* `case event, ok := <-watcher.Events()` with ok true
LoopRecvEvent ==
    /\ loopPc = "select"
    /\ ~chClosed
    /\ gen < MaxGen
    /\ \E p \in EventPaths, op \in EventOps :
         /\ Dir(p) \in osWatched
         /\ event' = [name |-> p, op |-> op]
    /\ loopPc' = "lookup"
    /\ UNCHANGED <<gen, cancelReq, fired, lastAccept, wsVars, taskVars, envVars, timeVars>>

\* The map lookup and the tests on the event's kind and on `fired`.  A
\* lookup that runs while Watch is writing the map is a data race: the Go
\* runtime may abort the process ("concurrent map read and map write").
LoopLookup ==
    /\ loopPc = "lookup"
    /\ \/ /\ IsRelevant(event.name) /\ IsWrite(event.op) /\ ~fired
          /\ loopPc' = "cancel"
       \/ /\ ~(IsRelevant(event.name) /\ IsWrite(event.op) /\ ~fired)
          /\ loopPc' = "select"
       \/ /\ mutex # None
          /\ loopPc' = "crashed"
    /\ event' = NoEvent
    /\ UNCHANGED <<gen, cancelReq, fired, lastAccept, wsVars, taskVars, envVars, timeVars>>

\* Mutant of LoopCancel: the previous scope is not cancelled.
LoopCancel_Skip ==
    /\ loopPc = "cancel"
    /\ loopPc' = "spawn"
    /\ UNCHANGED <<gen, cancelReq, fired, event, lastAccept, wsVars, taskVars, envVars, timeVars>>

\* previousCancel()
LoopCancel ==
    /\ loopPc = "cancel"
    /\ cancelReq' = cancelReq \cup {gen}
    /\ loopPc' = "spawn"
    /\ UNCHANGED <<gen, fired, event, lastAccept, wsVars, taskVars, envVars, timeVars>>

\* ticker.Reset: the next tick is one period from now.  A tick already
\* buffered in ticker.C stays there unless the runtime's timers discard
\* it on Reset (Go 1.23 and later do).
LoopSpawn ==
    /\ loopPc = "spawn"
    /\ gen' = gen + 1
    /\ probePc' = [probePc EXCEPT ![gen + 1] = "analyze"]
    /\ runSt' = [runSt EXCEPT ![gen + 1] = "running"]
    /\ fired' = TRUE
    /\ nextTick' = now + ticketDuration
    /\ tickPending' \in {tickPending, FALSE}
    /\ lastAccept' = now
    /\ loopPc' = "select"
    /\ UNCHANGED <<cancelReq, event, probeArg, wsVars, envVars, now>>

\* Mutant of LoopTick: the tick is received and `fired` is left as it is.
LoopTick_KeepFired ==
    /\ loopPc = "select"
    /\ tickPending
    /\ tickPending' = FALSE
    /\ UNCHANGED <<loopPc, gen, cancelReq, fired, event, lastAccept, wsVars, taskVars,
                   envVars, now, nextTick>>

\* `case <-ticker.C: fired = false`
LoopTick ==
    /\ loopPc = "select"
    /\ tickPending
    /\ fired' = FALSE
    /\ tickPending' = FALSE
    /\ UNCHANGED <<loopPc, gen, cancelReq, event, lastAccept, wsVars, taskVars, envVars,
                   now, nextTick>>

\* Mutant of LoopRecvError: a watch error ends the loop.
LoopRecvError_Return ==
    /\ loopPc = "select"
    /\ ~chClosed
    /\ errPending
    /\ errPending' = FALSE
    /\ loopPc' = "shutdown"
    /\ UNCHANGED <<ctxDone, chClosed, gen, cancelReq, fired, event, lastAccept, wsVars,
                   taskVars, timeVars>>

\* `case err, ok := <-watcher.Errors()` with ok true: the error is printed
LoopRecvError ==
    /\ loopPc = "select"
    /\ ~chClosed
    /\ errPending
    /\ errPending' = FALSE
    /\ UNCHANGED <<ctxDone, chClosed, loopVars, wsVars, taskVars, timeVars>>

\* Either channel is closed: `if !ok { return }`
LoopChanClosed ==
    /\ loopPc = "select"
    /\ chClosed
    /\ loopPc' = "shutdown"
    /\ UNCHANGED <<gen, cancelReq, fired, event, lastAccept, wsVars, taskVars, envVars, timeVars>>

\* `case <-ctx.Done(): return`
LoopCtxDone ==
    /\ loopPc = "select"
    /\ ctxDone
    /\ loopPc' = "shutdown"
    /\ UNCHANGED <<gen, cancelReq, fired, event, lastAccept, wsVars, taskVars, envVars, timeVars>>

\* ------------------------------------------------------ the environment
\* The owning process's context is cancelled (an interrupt).
UpstreamCancel ==
    /\ Alive
    /\ ~ctxDone
    /\ ctxDone' = TRUE
    /\ UNCHANGED <<chClosed, errPending, loopVars, wsVars, taskVars, timeVars>>

\* The watch primitive closes its channels.
CloseChannels ==
    /\ Alive
    /\ ~chClosed
    /\ chClosed' = TRUE
    /\ errPending' = FALSE
    /\ UNCHANGED <<ctxDone, loopVars, wsVars, taskVars, timeVars>>

\* The watch primitive has an error to report: it sends on its error
\* channel, which is unbuffered, until the loop receives.
WatchError ==
    /\ Alive
    /\ ~chClosed
    /\ ~errPending
    /\ loopPc \notin {"run0", "shutdown"}
    /\ errPending' = TRUE
    /\ UNCHANGED <<ctxDone, chClosed, loopVars, wsVars, taskVars, timeVars>>

\* The ticker runs from the start of the loop to its end (ticker.Stop).
TickerActive == nextTick # None /\ loopPc \notin {"shutdown", "crashed"}

\* The ticker fires: a tick is put in ticker.C, whose buffer holds one; the
\* tick is dropped if one is already there.
TickerFire ==
    /\ TickerActive
    /\ now >= nextTick
    /\ tickPending' = TRUE
    /\ nextTick' = nextTick + ticketDuration
    /\ UNCHANGED <<now, loopVars, wsVars, taskVars, envVars>>

\* Time passes, but not past a tick that is due.
Advance ==
    /\ Alive
    /\ now < MaxTime
    /\ ~(TickerActive /\ now >= nextTick)
    /\ now' = now + TimeStep
    /\ UNCHANGED <<nextTick, tickPending, loopVars, wsVars, taskVars, envVars>>

Next ==
    \/ \E g \in Gens : ProbeAnalyzeOk(g)
    \/ \E g \in Gens : ProbeAnalyzeFail(g)
    \/ \E g \in Gens : ProbeCount(g)
    \/ \E g \in Gens : WatchLock(g)
    \/ \E g \in Gens : WatchAdd(g)
    \/ \E g \in Gens : WatchPrune(g)
    \/ \E g \in Gens : RunFinish(g)
    \/ LoopRecvEvent
    \/ LoopLookup
    \/ LoopCancel
    \/ LoopSpawn
    \/ LoopTick
    \/ TickerFire
    \/ Advance

\* The running system: probes, runs, the event loop and the clock.
Spec == Init /\ [][Next]_vars

\* The running system under the scheduling the Go runtime gives: time
\* passes and the ticker fires when due; the goroutine of the loop keeps
\* running, so a step it has started is finished; select picks at random
\* among its ready cases, so a tick that is ready again and again is
\* eventually received even while events keep arriving.
Fairness ==
    /\ WF_vars(Advance)
    /\ WF_vars(TickerFire)
    /\ WF_vars(LoopLookup)
    /\ WF_vars(LoopCancel)
    /\ WF_vars(LoopSpawn)
    /\ SF_vars(LoopTick)

SpecFair == Spec /\ Fairness

\* The running system with its environment: watch errors, closure of the
\* watch primitive's channels and cancellation of the owning context.
NextEnv ==
    \/ Next
    \/ LoopRecvError
    \/ LoopChanClosed
    \/ LoopCtxDone
    \/ UpstreamCancel
    \/ CloseChannels
    \/ WatchError

SpecEnv == Init /\ [][NextEnv]_vars

TypeOK ==
    /\ loopPc \in {"run0", "select", "lookup", "cancel", "spawn", "shutdown", "crashed"}
    /\ gen \in Gens
    /\ mutex \in Gens \cup {None}
    /\ \A g \in Gens : probePc[g] \in {"idle", "analyze", "count", "watch", "adding",
                                       "kept", "failed", "done"}
    /\ \A g \in Gens : runSt[g] \in {"none", "running", "done"}

\* ============================================================== claims
\* A Watch call has returned nil and no later call has started to mutate.
AfterWatch == mutex = None /\ lastCall.ok

\* The paths of the latest successful call, resolved link by link.
LatestResolved == {EvalSymlinks(p, FALSE).path : p \in lastCall.arg}

\* C1: after every successful Watch call the tracked directories are
\* exactly the parent directories of the tracked paths.
C1_DirsAreParentsOfPaths ==
    AfterWatch => wdirs = {Dir(p) : p \in wpaths}

\* C2: after a successful Watch(P) no directory outside the parent
\* directories of P is still registered with the OS watch primitive.
C2_NoStaleRegistration ==
    AfterWatch => osWatched \subseteq {Dir(p) : p \in LatestResolved}

\* C3: a Watch(P) that follows a Watch(P) with the same P returns with the
\* paths and directories the first call left, and has issued no Add.
C3_WatchIdempotent ==
    [][\A g \in Gens :
         (mutex = g /\ mutex' = None /\ lastCall.ok /\ lastCall.arg = probeArg[g])
            => (wpaths' = lastCall.paths /\ wdirs' = lastCall.dirs /\ wAdds = {})]_vars

C5_ReadersExcluded ==
    ~(MidWatch /\ (loopPc = "lookup" \/ \E g \in Gens : probePc[g] = "count"))

\* C6: at most one edit is accepted per debounce window: two accepted
\* edits are at least ticketDuration apart.
C6_OneTriggerPerWindow ==
    [][(loopPc = "spawn" /\ loopPc' # "spawn" /\ lastAccept # None)
         => lastAccept' - lastAccept >= ticketDuration]_vars

\* C7: the tasks of generation g+1 are started only after the cancel
\* function of generation g has been called.
C7_CancelBeforeStart ==
    \A g \in Gens :
        (g > 0 /\ (probePc[g] # "idle" \/ runSt[g] # "none")) => (g - 1) \in cancelReq

\* C7 witness: two edits have been accepted and the second one's tasks run.
C7_Witness ==
    gen >= 2 /\ probePc[gen] # "idle" /\ runSt[gen] # "none"

\* C8: a probe whose scope has been cancelled does not call Watch.
C8_CancelledProbeNeverWatches ==
    [][\A g \in Gens :
         (g \in cancelReq /\ probePc[g] = "watch") => probePc'[g] = "watch"]_vars

\* C9: the run of a cancelled generation does not proceed concurrently
\* with the run of the next generation.
C9_NoOverlapWithSupersededRun ==
    \A g \in Gens :
        (g < MaxGen /\ g \in cancelReq)
            => ~(runSt[g] = "running" /\ runSt[g + 1] = "running")

\* C10: a probe whose analysis fails while paths are tracked returns
\* without touching the watch set or the OS registrations, and a write to a
\* tracked path outside the debounce window is then accepted and starts
\* the next generation.
C10_FailureKeepsWatchSet ==
    /\ [][\A g \in Gens :
            (probePc[g] = "count" /\ probePc'[g] # "count" /\ wpaths # {})
               => (probePc'[g] = "kept"
                   /\ UNCHANGED <<wpaths, wdirs, osWatched, wAdds, mutex>>)]_vars
    /\ [][(loopPc = "lookup" /\ loopPc' # "lookup" /\ mutex = None
             /\ event.name \in wpaths /\ IsWrite(event.op) /\ ~fired)
            => loopPc' = "cancel"]_vars
    /\ [][(loopPc = "cancel" /\ loopPc' # "cancel") => loopPc' = "spawn"]_vars
    /\ [][(loopPc = "spawn" /\ loopPc' # "spawn")
            => (gen' = gen + 1 /\ probePc'[gen'] = "analyze"
                /\ runSt'[gen'] = "running")]_vars

\* C10 witness: the current generation's probe failed and returned without
\* calling Watch, and a write to a tracked path has just been accepted.
C10_Witness ==
    /\ probePc[gen] = "kept"
    /\ wpaths # {} /\ mutex = None
    /\ loopPc = "cancel"

\* A probe has applied the fallback and its Watch call has returned nil:
\* the latest successful call was given the entrypoint's directory alone.
AfterFallback == AfterWatch /\ lastCall.arg = ProbePaths({})

\* C11: whenever the probe has applied the fallback, the entrypoint's
\* directory is registered with the OS watch primitive and the entrypoint
\* file is a relevant path (so a write to it is accepted).
C11_FallbackObservesEntrypoint ==
    AfterFallback => (Dir(entrypoint) \in osWatched /\ IsRelevant(entrypoint))

\* updateWatcher(g) has returned.
ProbeCompleted(g) == probePc[g] \in {"kept", "failed", "done"}

\* C12: once the first probe has completed, the relevant-path set is
\* non-empty in every later state.
C12_PathsNonEmptyAfterFirstProbe ==
    ProbeCompleted(0) => wpaths # {}

\* What an accepted edit changes: the generation, the cancelled scopes,
\* the debounce flag, the ticker, and the tasks.
Coordinator == <<gen, cancelReq, fired, nextTick, tickPending, probePc, runSt>>

\* C13: handling an event whose path is not in w.paths changes nothing of
\* the coordinator (generation, scopes, fired, ticker, tasks) and starts no
\* generation; the loop goes back to its select.
C13_IrrelevantEventChangesNothing ==
    [][(loopPc = "lookup" /\ loopPc' # "lookup" /\ event.name \notin wpaths)
         => (/\ loopPc' # "cancel"
             /\ (mutex = None => loopPc' = "select")
             /\ UNCHANGED Coordinator)]_vars

\* C13 witness: the loop is about to look up a write, outside the debounce
\* window, to a file of a registered directory that is not tracked.
C13_Witness ==
    /\ loopPc = "lookup"
    /\ event.name \notin wpaths
    /\ IsWrite(event.op) /\ ~fired
    /\ mutex = None /\ wpaths # {}

\* C14: once the loop has stopped (upstream cancellation or closure of a
\* watch channel), the scope of the current generation is cancelled.
C14_ShutdownCancelsCurrent ==
    loopPc = "shutdown" => Cancelled(gen)

\* The loop receives a tick: the step that empties ticker.C at the select.
TickReceived == loopPc = "select" /\ tickPending /\ ~tickPending'

\* The debounce window is open and closes within the clock's horizon.
WindowOpen == fired /\ nextTick <= MaxTime

\* C15: receiving a tick only clears `fired` (no generation is created or
\* cancelled, no task is touched); an open debounce window is eventually
\* followed by the idle state unless the process has died; and a relevant
\* write looked up in the idle state is accepted.
C15_TickOnlyClearsDebounce ==
    /\ [][TickReceived
            => (~fired' /\ loopPc' = "select"
                /\ UNCHANGED <<gen, cancelReq, probePc, runSt, nextTick>>)]_vars
    /\ (WindowOpen ~> (~fired \/ ~Alive))
    /\ [][(loopPc = "lookup" /\ loopPc' # "lookup" /\ mutex = None
             /\ event.name \in wpaths /\ IsWrite(event.op))
            => (loopPc' = "cancel" <=> ~fired)]_vars

\* C15 witness: a tick has closed the window of an accepted edit, and the
\* loop is about to look up a write to a tracked path.
C15_Witness ==
    /\ gen > 0 /\ ~fired /\ ~tickPending
    /\ loopPc = "lookup" /\ event.name \in wpaths /\ IsWrite(event.op)
    /\ mutex = None

\* The goroutine of the loop has been started (`go fn()`).
LoopStarted == loopPc # "run0"

\* C16: while the run of any generation, generation 0 included, is still
\* executing, the loop is running and can take an event, a tick or a
\* cancellation.
C16_LoopNeverWaitsForRun ==
    \A g \in Gens : runSt[g] = "running" => LoopStarted

\* A step on which an error is raised and printed: the analysis fails, a
\* run returns (with or without an error), Watch returns an error, or the
\* loop receives an error from the watch primitive.
ErrorStep ==
    \/ \E g \in Gens : probePc[g] = "analyze" /\ probePc'[g] = "count"
    \/ \E g \in Gens : runSt[g] = "running" /\ runSt'[g] = "done"
    \/ \E g \in Gens : probePc[g] = "watch" /\ probePc'[g] = "failed"
    \/ errPending /\ ~errPending' /\ ~chClosed'

\* C17: the loop stops only at its select, on a cancelled context or a
\* closed watch channel; no step on which an error is raised stops it, and
\* apart from the end of run 0 (which starts the loop) no such step moves
\* the loop at all.
C17_ErrorsNeverStopLoop ==
    /\ [][(loopPc # "shutdown" /\ loopPc' = "shutdown")
            => (loopPc = "select" /\ (ctxDone \/ chClosed))]_vars
    /\ [][ErrorStep
            => (/\ loopPc' = loopPc \/ (~LoopStarted /\ loopPc' = "select")
                /\ UNCHANGED <<gen, cancelReq, fired>>)]_vars

\* C17 witness: an analysis has failed and a Watch call has returned an
\* error, the watch primitive is delivering an error, and the loop, past
\* its first accepted edit, is at its select with nothing cancelled or
\* closed.
C17_Witness ==
    /\ \E g \in Gens : probePc[g] = "failed"
    /\ \E g \in Gens : probePc[g] \in {"count", "kept"}
    /\ errPending /\ ~chClosed /\ ~ctxDone
    /\ loopPc = "select" /\ gen > 0

\* The generations whose probe has ended with a Watch call that returned
\* nil.
Successful == {g \in Gens : probePc[g] = "done"}

\* C18: a stale result never persists.  When the last running probe, of a
\* generation older than the newest successful one, returns from Watch
\* (the watch set was the newest successful generation's result), the
\* watch set is still that result.
C18_StaleResultNeverPersists ==
    [][\A g \in Gens :
         (/\ mutex = g /\ mutex' = None
          /\ lastCall.ok /\ lastCall.by > g
          /\ \A h \in Successful : h <= lastCall.by
          /\ \A h \in Gens \ {g} : probePc[h] = "idle" \/ ProbeCompleted(h))
            => wpaths' = lastCall.paths]_vars

\* C19: handling an event on a tracked path whose kind has no write starts
\* no generation and leaves the coordinator (generation, scopes, fired,
\* ticker, tasks) as it was; the loop goes back to its select.
C19_NonWriteEventChangesNothing ==
    [][(loopPc = "lookup" /\ loopPc' # "lookup"
          /\ event.name \in wpaths /\ "Write" \notin event.op)
         => (/\ loopPc' # "cancel"
             /\ (mutex = None => loopPc' = "select")
             /\ UNCHANGED Coordinator)]_vars

\* C19 witness: the loop is about to look up a remove event on a tracked
\* path, outside the debounce window.
C19_Witness ==
    /\ loopPc = "lookup"
    /\ event.name \in wpaths
    /\ event.op = {"Remove"} /\ ~fired
    /\ mutex = None

\* C20: a Watch call that returns an error leaves w.paths, w.dirs and the
\* directories registered with the OS watch primitive as they were.
C20_FailedWatchChangesNothing ==
    [][\A g \in Gens :
         (probePc[g] = "watch" /\ probePc'[g] = "failed")
            => UNCHANGED <<wpaths, wdirs, osWatched>>]_vars

\* C20 witness: a Watch call has returned an error while paths were
\* tracked and directories registered, and no other call is running.
C20_Witness ==
    /\ \E g \in Gens : g > 0 /\ probePc[g] = "failed"
    /\ wpaths # {} /\ osWatched # {}
    /\ mutex = None

====
